---- MODULE Spec2Model ----
(***************************************************************************)
(* Ledger reconciliation and balance computation of src/app.py.            *)
(*                                                                         *)
(* The spreadsheet is the system of record: four transaction sheets        *)
(* (CustomerDues, PaymentsReceived, GoodsReceived, PaymentsToSuppliers)    *)
(* and Party_Master.  Every cell is text.  A text is modelled as a         *)
(* sequence of one-character strings, so that strip, replace, split and    *)
(* the numeric / date parsers are computed character by character as the   *)
(* code computes them.  Amounts are whole rupees (the alphabet of the      *)
(* amount texts has no decimal point), so float arithmetic is exact.       *)
(***************************************************************************)
EXTENDS Integers, Sequences, FiniteSets, TLC

VARIABLES
    dues,        \* sheet CustomerDues        : sequence of [Date, Party, Amount]
    pymt,        \* sheet PaymentsReceived    : sequence of [Date, Party, Amount]
    goods,       \* sheet GoodsReceived       : sequence of [Date, Party, Amount] (Party = Supplier column)
    supp_pay,    \* sheet PaymentsToSuppliers : sequence of [Date, Party, Amount] (Party = Supplier column)
    master,      \* sheet Party_Master        : sequence of [Name, Code]
    home,        \* what screen_home rendered, or NoView
    stmt,        \* what screen_ledger rendered on "Show Statement", or NoView
    reminders,   \* what screen_reminders rendered, or NoView
    sort_mode,   \* st.session_state['sort_mode'], "unset" while the key is absent
    amount_text, \* a raw Amount cell handed to clean_amount
    amount_value, \* what clean_amount returned for it, or NoView
    date_text,   \* a raw Date cell
    date_value,  \* what parse_date returned for it (the ledger's reading), or NoView
    date_dayfirst, \* what the Day Book / Edit filters read it as, or NoView
    scanned_name, \* a party name handed to smart_match_party
    existing_names, \* the known names it is matched against
    matched,     \* what smart_match_party returned, or NoView
    rematched,   \* what it returned when fed its own result, or NoView
    edit_df,     \* st.session_state['edit_df'], NoView while the key is absent
    edit_s,      \* st.session_state['edit_s'], "unset" while the key is absent
    daily_data,  \* st.session_state['daily_data'], NoView while the key is absent
    saved,       \* what the last Save button of a tool did, or NoView
    page,        \* st.session_state['page'], "unset" while the key is absent
    selection    \* the option picked in a party select box and the name read from it, or NoView

sheets == <<dues, pymt, goods, supp_pay, master>>
views == <<home, stmt, reminders>>
cell == <<amount_text, amount_value>>
dates == <<date_text, date_value, date_dayfirst>>
matcher == <<scanned_name, existing_names, matched, rematched>>
session == <<edit_df, edit_s, daily_data, saved>>
nav == <<page, selection>>
vars == <<dues, pymt, goods, supp_pay, master, home, stmt, reminders, sort_mode,
          amount_text, amount_value, date_text, date_value, date_dayfirst,
          scanned_name, existing_names, matched, rematched,
          edit_df, edit_s, daily_data, saved, page, selection>>

NoView == [kind |-> "none"]

----------------------------------------------------------------------------
(* Text helpers: Python str methods on sequences of characters.            *)

Digits == {"0", "1", "2", "3", "4", "5", "6", "7", "8", "9"}

DigitVal(c) ==
    CASE c = "0" -> 0 [] c = "1" -> 1 [] c = "2" -> 2 [] c = "3" -> 3
      [] c = "4" -> 4 [] c = "5" -> 5 [] c = "6" -> 6 [] c = "7" -> 7
      [] c = "8" -> 8 [] c = "9" -> 9

\* int() of a non-empty run of decimal digits
RECURSIVE ToNat(_)
ToNat(s) ==
    IF s = <<>> THEN 0
    ELSE 10 * ToNat(SubSeq(s, 1, Len(s) - 1)) + DigitVal(s[Len(s)])

AllDigits(s) == s # <<>> /\ \A i \in 1..Len(s) : s[i] \in Digits

\* str.strip(): drop leading and trailing whitespace
RECURSIVE LStrip(_)
LStrip(s) == IF s # <<>> /\ Head(s) = " " THEN LStrip(Tail(s)) ELSE s

RECURSIVE RStrip(_)
RStrip(s) ==
    IF s # <<>> /\ s[Len(s)] = " " THEN RStrip(SubSeq(s, 1, Len(s) - 1)) ELSE s

Strip(s) == RStrip(LStrip(s))

\* s.startswith(pat)
StartsWith(s, pat) == Len(s) >= Len(pat) /\ SubSeq(s, 1, Len(pat)) = pat

\* s.replace(pat, ""): remove the occurrences of pat, scanning left to right
RECURSIVE Remove(_, _)
Remove(s, pat) ==
    IF s = <<>> THEN <<>>
    ELSE IF StartsWith(s, pat) THEN Remove(SubSeq(s, Len(pat) + 1, Len(s)), pat)
    ELSE <<Head(s)>> \o Remove(Tail(s), pat)

\* c in s
Contains(s, c) == \E i \in 1..Len(s) : s[i] = c

\* s.split(pat)[0]: the text before the first occurrence of pat (all of s if none)
RECURSIVE BeforeFirst(_, _)
BeforeFirst(s, pat) ==
    IF s = <<>> \/ StartsWith(s, pat) THEN <<>>
    ELSE <<Head(s)>> \o BeforeFirst(Tail(s), pat)

----------------------------------------------------------------------------
(* clean_amount: float(str(val).replace(",","").replace("₹","")            *)
(*               .replace("Rs","").strip()), 0.0 when float() raises.      *)

Rupee == "₹"

\* float() on the texts of the model's alphabet: an optional sign followed by
\* decimal digits parses to that number, an optional sign followed by "nan"
\* parses to the float nan; anything else raises ValueError.
FloatNaN == [k |-> "nan"]

FloatIsNaN(s) ==
    \/ s = <<"n", "a", "n">>
    \/ Len(s) = 4 /\ s[1] \in {"-", "+"} /\ Tail(s) = <<"n", "a", "n">>

FloatParses(s) ==
    \/ AllDigits(s)
    \/ Len(s) >= 2 /\ s[1] \in {"-", "+"} /\ AllDigits(Tail(s))
    \/ FloatIsNaN(s)

FloatValue(s) ==
    IF FloatIsNaN(s) THEN FloatNaN
    ELSE IF s[1] = "-" THEN 0 - ToNat(Tail(s))
    ELSE IF s[1] = "+" THEN ToNat(Tail(s))
    ELSE ToNat(s)

\* str(val).replace(",", "").replace("₹", "").replace("Rs", "").strip()
CleanedText(val) == Strip(Remove(Remove(Remove(val, <<",">>), <<Rupee>>), <<"R", "s">>))

clean_amount(val) ==
    LET t == CleanedText(val)
    IN IF FloatParses(t) THEN FloatValue(t) ELSE 0

----------------------------------------------------------------------------
(* parse_date: pd.to_datetime(date_str).date(), None when that raises.     *)
(* A calendar date is its ordinal year*10000 + month*100 + day, which      *)
(* orders as datetime.date does.                                           *)

DateOrd(y, m, d) == y * 10000 + m * 100 + d

IsLeap(y) == (y % 4 = 0 /\ y % 100 # 0) \/ y % 400 = 0

DaysIn(y, m) ==
    IF m = 2 THEN (IF IsLeap(y) THEN 29 ELSE 28)
    ELSE IF m \in {4, 6, 9, 11} THEN 30 ELSE 31

ValidYMD(y, m, d) == y >= 1 /\ m \in 1..12 /\ d >= 1 /\ d <= DaysIn(y, m)

PyNone == [k |-> "None", v |-> 0]
NaT == [k |-> "NaT", v |-> 0]
ADate(y, m, d) == [k |-> "date", v |-> DateOrd(y, m, d)]

\* The three digit groups of a text shaped NNNN-NN-NN
IsIsoShape(s) ==
    /\ Len(s) = 10 /\ s[5] = "-" /\ s[8] = "-"
    /\ AllDigits(SubSeq(s, 1, 4)) /\ AllDigits(SubSeq(s, 6, 7)) /\ AllDigits(SubSeq(s, 9, 10))

\* ... and of a text shaped NN/NN/NNNN
IsSlashShape(s) ==
    /\ Len(s) = 10 /\ s[3] = "/" /\ s[6] = "/"
    /\ AllDigits(SubSeq(s, 1, 2)) /\ AllDigits(SubSeq(s, 4, 5)) /\ AllDigits(SubSeq(s, 7, 10))

\* pd.to_datetime on one string, dayfirst left at its default (False):
\*   ""            -> NaT (and NaT.date() is NaT)
\*   YYYY-MM-DD    -> that date
\*   AA/BB/YYYY    -> month AA, day BB when AA <= 12; day AA, month BB when
\*                    only that reading is a calendar date
\*   anything else -> the parser raises, so parse_date returns None
parse_date(date_str) ==
    IF date_str = <<>> THEN NaT
    ELSE IF IsIsoShape(date_str) THEN
        LET y == ToNat(SubSeq(date_str, 1, 4))
            m == ToNat(SubSeq(date_str, 6, 7))
            d == ToNat(SubSeq(date_str, 9, 10))
        IN IF ValidYMD(y, m, d) THEN ADate(y, m, d) ELSE PyNone
    ELSE IF IsSlashShape(date_str) THEN
        LET a == ToNat(SubSeq(date_str, 1, 2))
            b == ToNat(SubSeq(date_str, 4, 5))
            y == ToNat(SubSeq(date_str, 7, 10))
        IN IF ValidYMD(y, a, b) THEN ADate(y, a, b)
           ELSE IF ValidYMD(y, b, a) THEN ADate(y, b, a)
           ELSE PyNone
    ELSE PyNone

\* One element of pd.to_datetime(df["Date"], errors='coerce', dayfirst=True).dt.date,
\* the reading of the Day Book and Edit filters:
\*   ""            -> NaT
\*   YYYY-MM-DD    -> that date
\*   AA/BB/YYYY    -> day AA, month BB when that is a calendar date; when only
\*                    month AA, day BB is one, the installed pandas either falls
\*                    back to it or coerces the text to NaT (Swapped says which)
\*   anything else -> NaT (errors='coerce')
to_datetime_dayfirst(date_str, Swapped) ==
    IF date_str = <<>> THEN NaT
    ELSE IF IsIsoShape(date_str) THEN
        LET y == ToNat(SubSeq(date_str, 1, 4))
            m == ToNat(SubSeq(date_str, 6, 7))
            d == ToNat(SubSeq(date_str, 9, 10))
        IN IF ValidYMD(y, m, d) THEN ADate(y, m, d) ELSE NaT
    ELSE IF IsSlashShape(date_str) THEN
        LET a == ToNat(SubSeq(date_str, 1, 2))
            b == ToNat(SubSeq(date_str, 4, 5))
            y == ToNat(SubSeq(date_str, 7, 10))
        IN IF ValidYMD(y, b, a) THEN ADate(y, b, a)
           ELSE IF ValidYMD(y, a, b) /\ Swapped = "monthfirst" THEN ADate(y, a, b)
           ELSE NaT
    ELSE NaT

\* the readings the installed pandas can produce for one text
SwappedOutcomes(date_str) ==
    IF /\ IsSlashShape(date_str)
       /\ to_datetime_dayfirst(date_str, "monthfirst") # to_datetime_dayfirst(date_str, "NaT")
    THEN {"monthfirst", "NaT"} ELSE {"monthfirst"}

----------------------------------------------------------------------------
(* Party names and their display strings.                                  *)

SheetNames(sheet) == {sheet[i].Party : i \in DOMAIN sheet}

\* get_master_map()[0]: stripped name -> stripped code, a later row of
\* Party_Master overwriting an earlier one of the same name
MasterNames == {Strip(master[i].Name) : i \in DOMAIN master} \ {<<>>}

get_master_map ==
    [n \in MasterNames |->
        LET last == CHOOSE i \in DOMAIN master :
                        /\ Strip(master[i].Name) = n
                        /\ \A j \in DOMAIN master : Strip(master[j].Name) = n => j <= i
        IN Strip(master[last].Code)]

\* the code shown for a name: mapping[name], "" for a name only the sheets hold
CodeOf(name) == IF name \in MasterNames THEN get_master_map[name] ELSE <<>>

\* f"{name} ({code})" if code else name
DisplayString(name, code) ==
    IF code # <<>> THEN name \o <<" ", "(">> \o code \o <<")">> ELSE name

DisplayOf(name) == DisplayString(name, CodeOf(name))

\* get_all_party_names_display(): the options of the party select boxes
get_all_party_names_display ==
    {DisplayOf(n) : n \in MasterNames \cup SheetNames(dues) \cup SheetNames(pymt)
                            \cup SheetNames(goods) \cup SheetNames(supp_pay)}

extract_name_display(display_str) ==
    IF Contains(display_str, "(") /\ Contains(display_str, ")")
    THEN Strip(BeforeFirst(display_str, <<" ", "(">>))
    ELSE Strip(display_str)

----------------------------------------------------------------------------
(* Sums and sorts.                                                         *)

\* sum of clean_amount over the Amount cells of a run of rows
RECURSIVE SumAmounts(_)
SumAmounts(rows) ==
    IF rows = <<>> THEN 0
    ELSE clean_amount(Head(rows).Amount) + SumAmounts(Tail(rows))

\* df.groupby(col)["Amount"].apply(lambda x: x.apply(clean_amount).sum()).get(p, 0)
GroupSum(sheet, p) == SumAmounts(SelectSeq(sheet, LAMBDA r : r.Party = p))

\* list.sort(key=...) / sort_values: a stable sort of records by their integer
\* field "key", ascending (reverse=True is the same sort on the negated key:
\* Python keeps equal elements in their original order there too)
RECURSIVE InsertSorted(_, _)
InsertSorted(x, s) ==
    IF s = <<>> \/ ~(Head(s).key < x.key) THEN <<x>> \o s
    ELSE <<Head(s)>> \o InsertSorted(x, Tail(s))

RECURSIVE StableSort(_)
StableSort(s) ==
    IF s = <<>> THEN <<>> ELSE InsertSorted(Head(s), StableSort(Tail(s)))

\* the distinct values of a sequence, in order of first appearance (dict keys)
RECURSIVE KeysInOrder(_, _)
KeysInOrder(s, seen) ==
    IF s = <<>> THEN <<>>
    ELSE IF Head(s) \in seen THEN KeysInOrder(Tail(s), seen)
    ELSE <<Head(s)>> \o KeysInOrder(Tail(s), seen \cup {Head(s)})

----------------------------------------------------------------------------
(* screen_home: the Market Position totals.                                *)

\* the loop "for p in all_...: bal = a.get(p, 0) - b.get(p, 0); if bal > 0: total += bal"
RECURSIVE SumPositive(_, _, _)
SumPositive(names, plus, minus) ==
    IF names = {} THEN 0
    ELSE LET p == CHOOSE x \in names : TRUE
             bal == GroupSum(plus, p) - GroupSum(minus, p)
         IN (IF bal > 0 THEN bal ELSE 0) + SumPositive(names \ {p}, plus, minus)

total_receivable ==
    IF dues # <<>> /\ pymt # <<>>
    THEN SumPositive(SheetNames(dues) \cup SheetNames(pymt), dues, pymt)
    ELSE 0

total_payable ==
    IF goods # <<>> /\ supp_pay # <<>>
    THEN SumPositive(SheetNames(goods) \cup SheetNames(supp_pay), goods, supp_pay)
    ELSE 0

\* the three metrics of the home screen
PositionView ==
    [kind |-> "position",
     total_receivable |-> total_receivable,
     total_payable |-> total_payable,
     net |-> total_receivable - total_payable]

screen_home ==
    /\ home' = PositionView
    /\ stmt' = NoView
    /\ reminders' = NoView
    /\ UNCHANGED <<sheets, sort_mode, cell, dates, matcher, session, nav>>

----------------------------------------------------------------------------
(* screen_ledger: the statement of one party over [s, e].                  *)

\* the rows "sub" of a sheet: those whose Party/Supplier cell is sel_party
SubRows(sheet, sel_party) == SelectSeq(sheet, LAMBDA r : r.Party = sel_party)

\* "if r_date and s <= r_date <= e": None is falsy; NaT is truthy and is
\* compared with the datetime.date bounds (see NaTCompare)
InRange(r_date, s, e) == r_date.k = "date" /\ s <= r_date.v /\ r_date.v <= e

\* a credit booked where a debit is due: a purchase taken for a debit
IsDebitPurchase(desc) == desc \in {"Sale", "Purchase"}

\* which kinds put the amount under "Dr" (the others put it under "Cr")
IsDebit(desc) == desc \in {"Sale", "Paid Supplier"}

\* the entries one sheet contributes, in sheet order
RECURSIVE EntriesOf(_, _, _, _)
EntriesOf(rows, desc, s, e) ==
    IF rows = <<>> THEN <<>>
    ELSE LET r == Head(rows)
             r_date == parse_date(r.Date)
             amt == clean_amount(r.Amount)
             debit == IsDebit(desc)
         IN (IF InRange(r_date, s, e)
             THEN <<[Date |-> r_date.v, Description |-> desc,
                     Debit |-> IF debit THEN amt ELSE 0,
                     Credit |-> IF debit THEN 0 ELSE amt]>>
             ELSE <<>>) \o EntriesOf(Tail(rows), desc, s, e)

\* the list "ledger" after the four loops
LedgerList(sel_party, s, e) ==
    EntriesOf(SubRows(dues, sel_party), "Sale", s, e)
      \o EntriesOf(SubRows(pymt, sel_party), "Rx", s, e)
      \o EntriesOf(SubRows(goods, sel_party), "Purchase", s, e)
      \o EntriesOf(SubRows(supp_pay, sel_party), "Paid Supplier", s, e)

\* whether one of the loops meets a row whose date parses to NaT
MeetsNaT(sel_party) ==
    \E sheet \in {dues, pymt, goods, supp_pay} :
        \E i \in DOMAIN sheet :
            sheet[i].Party = sel_party /\ parse_date(sheet[i].Date) = NaT

\* the sort left out: the entries stay in sheet order
SortByDateOmitted(ledger) == ledger

\* pd.DataFrame(ledger).sort_values('Date')
SortByDate(ledger) ==
    LET keyed == [i \in DOMAIN ledger |-> [key |-> ledger[i].Date, row |-> ledger[i]]]
        sorted == StableSort(keyed)
    IN [i \in DOMAIN sorted |-> sorted[i].row]

RECURSIVE SumField(_, _)
SumField(df, field) ==
    IF df = <<>> THEN 0 ELSE Head(df)[field] + SumField(Tail(df), field)

\* credits added to the balance instead of subtracted
NetBalanceAdded(df) == SumField(df, "Debit") + SumField(df, "Credit")

\* bal = df['Debit'].sum() - df['Credit'].sum()
NetBalance(df) == SumField(df, "Debit") - SumField(df, "Credit")

\* status = "Receivable" if bal > 0 else "Payable"
StatusOf(bal) == IF bal > 0 THEN "Receivable" ELSE "Payable"

\* generate_pdf: the Balance column, "bal += (dr - cr)" row by row from bal = 0
RECURSIVE generate_pdf(_, _)
generate_pdf(df, bal) ==
    IF df = <<>> THEN <<>>
    ELSE LET b == bal + (Head(df).Debit - Head(df).Credit)
         IN <<b>> \o generate_pdf(Tail(df), b)

\* NaTCompare: what "s <= NaT" does in the installed pandas: "raise" (TypeError:
\* Cannot compare NaT with datetime.date object) or "false" (older releases)
screen_ledger(sel_display, s, e, NaTCompare) ==
    LET sel_party == extract_name_display(sel_display)
        ledger == LedgerList(sel_party, s, e)
        df == SortByDate(ledger)
    IN /\ sel_party # <<>>
       /\ stmt' = IF NaTCompare = "raise" /\ MeetsNaT(sel_party)
                  THEN [kind |-> "error", party |-> sel_party, s |-> s, e |-> e]
                  ELSE IF ledger # <<>>
                  THEN [kind |-> "statement", party |-> sel_party, s |-> s, e |-> e,
                        df |-> df, bal |-> NetBalance(df), status |-> StatusOf(NetBalance(df)),
                        pdf |-> generate_pdf(df, 0)]
                  ELSE [kind |-> "no transactions", party |-> sel_party, s |-> s, e |-> e]
       /\ home' = NoView
       /\ reminders' = NoView
       /\ UNCHANGED <<sheets, sort_mode, cell, dates, matcher, session, nav>>

----------------------------------------------------------------------------
(* screen_reminders: the collections worklist.                             *)

\* one of the loops "bals[p] = bals.get(p, 0) +/- clean_amount(r['Amount'])"
RECURSIVE Accumulate(_, _, _)
Accumulate(bals, rows, sign) ==
    IF rows = <<>> THEN bals
    ELSE LET p == Head(rows).Party
             old == IF p \in DOMAIN bals THEN bals[p] ELSE 0
             new == old + sign * clean_amount(Head(rows).Amount)
         IN Accumulate([q \in DOMAIN bals \cup {p} |-> IF q = p THEN new ELSE bals[q]],
                       Tail(rows), sign)

\* the dict bals after both loops ("if not dues.empty" / "if not pymt.empty"
\* only skip a loop that would not run)
ReminderBals == Accumulate(Accumulate([q \in {} |-> 0], dues, 1), pymt, -1)

\* the keys of bals in insertion order
ReminderKeys ==
    KeysInOrder([i \in 1..(Len(dues) + Len(pymt)) |->
                    IF i <= Len(dues) THEN dues[i].Party ELSE pymt[i - Len(dues)].Party], {})

\* the balance floored at zero: only parties that owe are listed
ListablePositive(amt) == amt > 0

\* "if amt != 0": the test that lists a party
Listable(amt) == amt # 0

\* the list "data" before sorting
RECURSIVE ReminderRows(_)
ReminderRows(keys) ==
    IF keys = <<>> THEN <<>>
    ELSE (IF Listable(ReminderBals[Head(keys)])
          THEN <<[Party |-> DisplayOf(Head(keys)), Balance |-> ReminderBals[Head(keys)]]>>
          ELSE <<>>) \o ReminderRows(Tail(keys))

ReminderData == ReminderRows(ReminderKeys)

\* Python orders str by code point; the characters of the model's texts in that order
CodePointOrder ==
    <<" ", "(", ")", "+", ",", "-", "/", "0", "1", "2", "3", "4", "5", "6", "7", "8", "9",
      "P", "Q", "R", "S", "a", "b", "c", "d", "e", "n", "s", "x", "y", Rupee>>

CodePointRank(c) == CHOOSE i \in DOMAIN CodePointOrder : CodePointOrder[i] = c

RECURSIVE StrLess(_, _)
StrLess(a, b) ==
    IF b = <<>> THEN FALSE
    ELSE IF a = <<>> THEN TRUE
    ELSE IF Head(a) = Head(b) THEN StrLess(Tail(a), Tail(b))
    ELSE CodePointRank(Head(a)) < CodePointRank(Head(b))

\* data.sort(...) with reverse=True of the mode 'Z-A' left out
SortRemindersForward(data, mode) ==
    LET names == {data[i].Party : i \in DOMAIN data}
        rank(n) == Cardinality({m \in names : StrLess(m, n)})
        key(x) == CASE mode = "High-Low" -> 0 - x.Balance
                    [] mode = "Low-High" -> x.Balance
                    [] mode = "A-Z" -> rank(x.Party)
                    [] mode = "Z-A" -> rank(x.Party)
                    [] OTHER -> 0
        keyed == [i \in DOMAIN data |-> [key |-> key(data[i]), row |-> data[i]]]
        sorted == StableSort(keyed)
    IN [i \in DOMAIN sorted |-> sorted[i].row]

\* data.sort(...) under the four sort modes
SortReminders(data, mode) ==
    LET names == {data[i].Party : i \in DOMAIN data}
        rank(n) == Cardinality({m \in names : StrLess(m, n)})
        key(x) == CASE mode = "High-Low" -> 0 - x.Balance
                    [] mode = "Low-High" -> x.Balance
                    [] mode = "A-Z" -> rank(x.Party)
                    [] mode = "Z-A" -> 0 - rank(x.Party)
                    [] OTHER -> 0
        keyed == [i \in DOMAIN data |-> [key |-> key(data[i]), row |-> data[i]]]
        sorted == StableSort(keyed)
    IN [i \in DOMAIN sorted |-> sorted[i].row]

\* what the screen shows when st.session_state holds sm under 'sort_mode':
\* pd.DataFrame(data)[["Party", "Balance", "Phone"]] raises KeyError on an empty list
RemindersView(sm) ==
    LET mode == IF sm = "unset" THEN "High-Low" ELSE sm
        data == SortReminders(ReminderData, mode)
    IN IF data = <<>> THEN [kind |-> "error", data |-> data]
       ELSE [kind |-> "list", data |-> data]

screen_reminders ==
    /\ reminders' = RemindersView(sort_mode)
    /\ home' = NoView
    /\ stmt' = NoView
    /\ UNCHANGED <<sheets, sort_mode, cell, dates, matcher, session, nav>>

SortModes == {"High-Low", "Low-High", "A-Z", "Z-A"}

\* one of the four buttons under "Sort By:": the mode is stored and the
\* script reruns, which renders the screen again
SortButton(mode) ==
    /\ reminders # NoView
    /\ sort_mode' = mode
    /\ reminders' = RemindersView(mode)
    /\ home' = NoView
    /\ stmt' = NoView
    /\ UNCHANGED <<sheets, cell, dates, matcher, session, nav>>

----------------------------------------------------------------------------
(* smart_match_party: difflib.get_close_matches(scanned_name,              *)
(* existing_names, n=1, cutoff=0.6).  Names are shorter than the 200       *)
(* characters at which SequenceMatcher's autojunk heuristic sets in.       *)

\* SequenceMatcher.find_longest_match: the longest common block of a and b,
\* the one starting earliest in a and, among those, earliest in b
LongestMatch(a, b) ==
    LET MinLen == IF Len(a) < Len(b) THEN Len(a) ELSE Len(b)
        blocks == {x \in (1..Len(a)) \X (1..Len(b)) \X (1..MinLen) :
                      /\ x[1] + x[3] - 1 <= Len(a)
                      /\ x[2] + x[3] - 1 <= Len(b)
                      /\ SubSeq(a, x[1], x[1] + x[3] - 1) = SubSeq(b, x[2], x[2] + x[3] - 1)}
    IN IF blocks = {} THEN <<1, 1, 0>>
       ELSE CHOOSE x \in blocks : \A y \in blocks :
                \/ x[3] > y[3]
                \/ x[3] = y[3] /\ x[1] < y[1]
                \/ x[3] = y[3] /\ x[1] = y[1] /\ x[2] <= y[2]

\* the sum of the sizes of SequenceMatcher.get_matching_blocks(): the longest
\* block m, then the same to its left and to its right
RECURSIVE Matches(_, _)
RECURSIVE MatchesAround(_, _, _)
MatchesAround(a, b, m) ==
    IF m[3] = 0 THEN 0
    ELSE m[3] + Matches(SubSeq(a, 1, m[1] - 1), SubSeq(b, 1, m[2] - 1))
              + Matches(SubSeq(a, m[1] + m[3], Len(a)), SubSeq(b, m[2] + m[3], Len(b)))

Matches(a, b) == MatchesAround(a, b, LongestMatch(a, b))

\* cutoff=0.6 as the fraction CutoffNum / CutoffDen
CutoffNum == 6
CutoffDen == 10

\* ratio() = 2.0 * matches / (len(a) + len(b)), 1.0 for two empty texts, kept
\* as the fraction <<numerator, denominator>>
Ratio(x, word) ==
    IF Len(x) + Len(word) = 0 THEN <<1, 1>>
    ELSE <<2 * Matches(x, word), Len(x) + Len(word)>>

\* r < q for two such fractions
RatioLess(r, q) == r[1] * q[2] < q[1] * r[2]

\* the cutoff test with "ratio() > cutoff"
ExceedsCutoff(x, word) == RatioLess(<<CutoffNum, CutoffDen>>, Ratio(x, word))

\* "s.ratio() >= cutoff" (real_quick_ratio and quick_ratio are upper bounds of it)
MeetsCutoff(x, word) == ~RatioLess(Ratio(x, word), <<CutoffNum, CutoffDen>>)

\* (rx, x) > (ry, y) as Python compares tuples of a score and a text
TupleGreater(rx, x, ry, y) ==
    \/ RatioLess(ry, rx)
    \/ ~RatioLess(rx, ry) /\ StrLess(y, x)

\* the order of the least scorer: (score, x) < (score, y)
BetterLowest(x, y, word) == TupleGreater(Ratio(y, word), y, Ratio(x, word), x)

\* the order heapq.nlargest uses on the tuples (score, x): the higher score,
\* and for equal scores the greater text
Better(x, y, word) == TupleGreater(Ratio(x, word), x, Ratio(y, word), y)

\* get_close_matches(word, possibilities, n=1, cutoff=0.6)
get_close_matches(word, possibilities) ==
    LET result == {x \in possibilities : MeetsCutoff(x, word)}
    IN IF result = {} THEN <<>>
       ELSE <<CHOOSE x \in result : \A y \in result \ {x} : Better(x, y, word)>>

smart_match_party(name, names) ==
    LET matches == get_close_matches(name, names)
    IN IF matches # <<>> THEN matches[1] ELSE name

----------------------------------------------------------------------------
(* The worksheets by name, and what the tools write into them.             *)

SheetIds == {"CustomerDues", "PaymentsReceived", "PaymentsToSuppliers", "GoodsReceived"}

\* fetch_sheet_data(sheet_name)
fetch_sheet_data(sheet_name) ==
    CASE sheet_name = "CustomerDues" -> dues
      [] sheet_name = "PaymentsReceived" -> pymt
      [] sheet_name = "GoodsReceived" -> goods
      [] sheet_name = "PaymentsToSuppliers" -> supp_pay

\* ws.clear() followed by ws.update(...): the worksheet holds rows and nothing else
WriteSheet(sheet_name, rows) ==
    /\ dues' = IF sheet_name = "CustomerDues" THEN rows ELSE dues
    /\ pymt' = IF sheet_name = "PaymentsReceived" THEN rows ELSE pymt
    /\ goods' = IF sheet_name = "GoodsReceived" THEN rows ELSE goods
    /\ supp_pay' = IF sheet_name = "PaymentsToSuppliers" THEN rows ELSE supp_pay
    /\ master' = master

DigitChars == <<"0", "1", "2", "3", "4", "5", "6", "7", "8", "9">>

\* "%02d" % n
TwoChars(n) == <<DigitChars[(n \div 10) + 1], DigitChars[(n % 10) + 1]>>

\* .dt.strftime("%Y-%m-%d") of a date; NaT becomes nan, and astype(str) "nan"
strftime(d) ==
    IF d.k = "date"
    THEN TwoChars(d.v \div 1000000) \o TwoChars((d.v \div 10000) % 100) \o <<"-">>
            \o TwoChars((d.v \div 100) % 100) \o <<"-">> \o TwoChars(d.v % 100)
    ELSE <<"n", "a", "n">>

\* whether pd.to_datetime(edited["Date"], dayfirst=True), which does not
\* coerce, raises on a text
DateRaises(date_str) ==
    date_str # <<>> /\ to_datetime_dayfirst(date_str, "monthfirst") = NaT

\* the readings the installed pandas can produce for a column of Date cells
ColumnOutcomes(rows) ==
    {"monthfirst"} \cup UNION {SwappedOutcomes(rows[i].Date) : i \in DOMAIN rows}

\* edited["Date"] = pd.to_datetime(edited["Date"], dayfirst=True).dt.strftime("%Y-%m-%d")
NormaliseDates(rows, Swapped) ==
    [i \in DOMAIN rows |->
        [rows[i] EXCEPT !.Date = strftime(to_datetime_dayfirst(rows[i].Date, Swapped))]]

----------------------------------------------------------------------------
(* screen_tools, tab "Edit Txn".                                           *)

\* the first option of the select box "Filter"
AllParties == <<"A", "l", "l">>

\* "Load Data": the rows of the sheet that pass the party filter and whose
\* date reads into [s_date, e_date] are put into the session (a comparison
\* with NaT is False, so a row whose date does not read is left out)
LoadData(sheet, f_party, s_date, e_date) ==
    \E Swapped \in ColumnOutcomes(fetch_sheet_data(sheet)) :
        LET df == fetch_sheet_data(sheet)
            InDates(r) ==
                LET D == to_datetime_dayfirst(r.Date, Swapped)
                IN D.k = "date" /\ D.v >= s_date /\ D.v <= e_date
            loaded == SelectSeq(df, LAMBDA r :
                          (f_party = AllParties \/ r.Party = f_party) /\ InDates(r))
        IN /\ df # <<>>
           /\ edit_df' = [kind |-> "df", rows |-> loaded]
           /\ edit_s' = sheet
           /\ saved' = NoView
           /\ UNCHANGED <<sheets, views, sort_mode, cell, dates, matcher, daily_data, nav>>

\* "Save Changes" with the filter now showing f_party and the editor
\* returning the rows edited: under "All" the sheet named at load time is
\* cleared and rewritten from the editor, otherwise the Safety Lock warns
SaveChanges(f_party, edited) ==
    /\ edit_df.kind = "df"
    /\ IF f_party = AllParties
       THEN \E Swapped \in ColumnOutcomes(edited) :
               IF \E i \in DOMAIN edited : DateRaises(edited[i].Date)
               THEN /\ saved' = [kind |-> "error", sheet |-> edit_s]
                    /\ UNCHANGED sheets
               ELSE /\ WriteSheet(edit_s, NormaliseDates(edited, Swapped))
                    /\ saved' = [kind |-> "updated", sheet |-> edit_s]
       ELSE /\ saved' = [kind |-> "safety lock", sheet |-> edit_s]
            /\ UNCHANGED sheets
    /\ UNCHANGED <<views, sort_mode, cell, dates, matcher, edit_df, edit_s, daily_data, nav>>

----------------------------------------------------------------------------
(* screen_day_book: the rows of one day and their "Save" buttons.          *)

\* filter_by_date(df): the rows whose date reads as view_date
filter_by_date(df, view_date, Swapped) ==
    SelectSeq(df, LAMBDA r : to_datetime_dayfirst(r.Date, Swapped) = [k |-> "date", v |-> view_date])

\* kept_rows = full_df[full_df["_dt"] != view_date]: every other row, those
\* whose date does not read included (NaT != view_date is True)
kept_rows(full_df, view_date, Swapped) ==
    SelectSeq(full_df, LAMBDA r : to_datetime_dayfirst(r.Date, Swapped) # [k |-> "date", v |-> view_date])

\* the button "Save <title>" of the section of sheet_name, the editor returning
\* the rows edited.  Api tells what the spreadsheet service does: "ok",
\* "unavailable" (get_sheet_object, sh.worksheet or ws.clear raises) or
\* "update fails" (ws.clear succeeds, then ws.update raises).  Every
\* exception is caught and shown by st.error.
SaveDay(sheet_name, view_date, edited, Api) ==
    \E Swapped \in ColumnOutcomes(fetch_sheet_data(sheet_name) \o edited) :
        LET full_df == fetch_sheet_data(sheet_name)
            final_df == kept_rows(full_df, view_date, Swapped) \o NormaliseDates(edited, Swapped)
        IN /\ filter_by_date(full_df, view_date, Swapped) # <<>>
           /\ IF (\E i \in DOMAIN edited : DateRaises(edited[i].Date)) \/ Api = "unavailable"
              THEN /\ UNCHANGED sheets
                   /\ saved' = [kind |-> "error", sheet |-> sheet_name, view_date |-> view_date]
              ELSE IF Api = "update fails"
              THEN /\ WriteSheet(sheet_name, <<>>)
                   /\ saved' = [kind |-> "error", sheet |-> sheet_name, view_date |-> view_date]
              ELSE /\ WriteSheet(sheet_name, final_df)
                   /\ saved' = [kind |-> "updated", sheet |-> sheet_name, view_date |-> view_date]
           /\ UNCHANGED <<views, sort_mode, cell, dates, matcher, edit_df, edit_s, daily_data, nav>>

----------------------------------------------------------------------------
(* screen_scan_daily: the review tables and "Save All".                    *)

\* str.upper() on the letters of the model's texts
Upper(s) ==
    [i \in DOMAIN s |->
        CASE s[i] = "a" -> "A" [] s[i] = "b" -> "B" [] s[i] = "c" -> "C" [] s[i] = "d" -> "D"
          [] s[i] = "e" -> "E" [] s[i] = "n" -> "N" [] s[i] = "s" -> "S" [] s[i] = "x" -> "X"
          [] s[i] = "y" -> "Y" [] OTHER -> s[i]]

\* re.search(r'\d+', s): the first run of digits of s, <<>> when it has none
RECURSIVE DigitRun(_)
DigitRun(s) == IF s = <<>> \/ Head(s) \notin Digits THEN <<>> ELSE <<Head(s)>> \o DigitRun(Tail(s))

RECURSIVE FirstDigits(_)
FirstDigits(s) ==
    IF s = <<>> THEN <<>>
    ELSE IF Head(s) \in Digits THEN DigitRun(s)
    ELSE FirstDigits(Tail(s))

\* str(n) of a natural number
RECURSIVE NatText(_)
NatText(n) == IF n < 10 THEN <<DigitChars[n + 1]>> ELSE NatText(n \div 10) \o <<DigitChars[(n % 10) + 1]>>

\* get_next_code(current_codes, prefix), current_codes given as a set
get_next_code(current_codes, prefix) ==
    LET nums == {ToNat(FirstDigits(Upper(Strip(code)))) :
                    code \in {c \in current_codes :
                                 /\ StartsWith(Upper(Strip(c)), prefix)
                                 /\ FirstDigits(Upper(Strip(c))) # <<>>}}
        max_num == IF nums = {} THEN 0 ELSE CHOOSE n \in nums : \A m \in nums : m <= n
    IN prefix \o NatText(max_num + 1)

\* get_master_map()[1]: the non-empty codes of Party_Master
codes_list == {Strip(master[i].Code) : i \in DOMAIN master} \ {<<>>}

\* the loop of prepare_df_with_code over raw_data: a matched name keeps its
\* code, any other gets the next code and adds it to temp_codes, temp_codes being
\* codes_list.copy() extended by the codes handed out so far in this table
RECURSIVE PrepareRows(_, _, _)
RECURSIVE PrepareNamed(_, _, _, _)
RECURSIVE PrepareCoded(_, _, _, _, _)
PrepareCoded(raw_data, temp_codes, prefix, raw_name, code) ==
    <<[Party |-> raw_name, Code |-> code, Amount |-> Head(raw_data).Amount]>>
        \o PrepareRows(Tail(raw_data),
                       IF CodeOf(raw_name) # <<>> THEN temp_codes ELSE temp_codes \cup {code},
                       prefix)

PrepareNamed(raw_data, temp_codes, prefix, raw_name) ==
    PrepareCoded(raw_data, temp_codes, prefix, raw_name,
                 IF CodeOf(raw_name) # <<>> THEN CodeOf(raw_name)
                 ELSE get_next_code(temp_codes, prefix))

PrepareRows(raw_data, temp_codes, prefix) ==
    IF raw_data = <<>> THEN <<>>
    ELSE PrepareNamed(raw_data, temp_codes, prefix,
                      smart_match_party(Head(raw_data).Party, MasterNames))

\* prepare_df_with_code(raw_data, col_name, prefix): every table starts from
\* codes_list.copy()
prepare_df_with_code(raw_data, prefix) == PrepareRows(raw_data, codes_list, prefix)

\* the two loops of "Save All" that collect master_updates: a row adds its
\* party when the party has no code yet and the row's code was not taken by
\* an earlier row of this save
RECURSIVE MasterUpdates(_, _, _)
MasterUpdates(rows, coded, seen_new_codes) ==
    IF rows = <<>> THEN <<>>
    ELSE LET p == Strip(Head(rows).Party)
             c == Strip(Head(rows).Code)
         IN IF p # <<>> /\ c # <<>> /\ p \notin coded /\ c \notin seen_new_codes
            THEN <<[Name |-> p, Code |-> c]>>
                    \o MasterUpdates(Tail(rows), coded \cup {p}, seen_new_codes \cup {c})
            ELSE MasterUpdates(Tail(rows), coded, seen_new_codes)

\* the rows appended to a transaction sheet: those of the table that name a party
AppendedRows(ed, dt) ==
    LET named == SelectSeq(ed, LAMBDA r : r.Party # <<>>)
    IN [i \in DOMAIN named |-> [Date |-> dt, Party |-> named[i].Party, Amount |-> named[i].Amount]]

\* "Extract": the AI's reading of the journal page is put into the session
Extract(data) ==
    /\ daily_data' = [kind |-> "data", tables |-> data]
    /\ saved' = NoView
    /\ UNCHANGED <<sheets, views, sort_mode, cell, dates, matcher, edit_df, edit_s, nav>>

\* "Save All" on the review form, the tables ed left as they were proposed
SaveTables(ed, master_updates, dt) ==
    /\ master' = master \o master_updates
    /\ dues' = dues \o AppendedRows(ed[1], dt)
    /\ pymt' = pymt \o AppendedRows(ed[2], dt)
    /\ supp_pay' = supp_pay \o AppendedRows(ed[3], dt)
    /\ goods' = goods \o AppendedRows(ed[4], dt)
    /\ saved' = [kind |-> "scan", tables |-> ed, added |-> master_updates]
    /\ daily_data' = NoView
    /\ UNCHANGED <<views, sort_mode, cell, dates, matcher, edit_df, edit_s, nav>>

\* ed: the four tables of the form in its order, the first two coded with
\* prefix R and the last two with prefix S
SaveAll(dt) ==
    /\ daily_data.kind = "data"
    /\ \E ed \in {[t \in 1..4 |->
                      prepare_df_with_code(
                          daily_data.tables[<<"CustomerDues", "PaymentsReceived",
                                              "PaymentsToSuppliers", "GoodsReceived">>[t]],
                          IF t <= 2 THEN <<"R">> ELSE <<"S">>)]} :
          SaveTables(ed,
                     MasterUpdates(ed[1] \o ed[2] \o ed[3] \o ed[4],
                                   {n \in MasterNames : get_master_map[n] # <<>>}, {}),
                     dt)

----------------------------------------------------------------------------
(* Navigation: go_to and the router.                                       *)

\* the pages the router has a branch for
RoutedPages ==
    {"home", "manual", "day_book", "ledger", "scan_historical", "scan_daily", "tools",
     "reminders"}

\* the targets of the six buttons of the home screen
HomeButtons == {"manual", "day_book", "ledger", "scan_daily", "reminders", "tools"}

\* a button that calls go_to(target): the six buttons of the home screen, the
\* Home button at the top of every other screen.  st.rerun() runs the script
\* again, and the router renders the screen of the new page.
go_to(target) ==
    /\ page \in RoutedPages
    /\ target \in (IF page = "home" THEN HomeButtons ELSE {"home"})
    /\ page' = target
    /\ home' = IF target = "home" THEN PositionView ELSE NoView
    /\ reminders' = IF target = "reminders" THEN RemindersView(sort_mode) ELSE NoView
    /\ stmt' = NoView
    /\ UNCHANGED <<sheets, sort_mode, cell, dates, matcher, session, selection>>

----------------------------------------------------------------------------
(* The texts the sheets are filled with.                                   *)

P1 == <<"P", "1">>
P1sp == <<" ", "P", "1">>
P2 == <<"P", "2">>
R1 == <<"R", "1">>

Amt1000 == <<Rupee, "1", ",", "0", "0", "0">>
Amt400 == <<"4", "0", "0">>
Amt250 == <<"R", "s", " ", "2", "5", "0">>

Jan05 == <<"2", "0", "2", "4", "-", "0", "1", "-", "0", "5">>
Jan10 == <<"2", "0", "2", "4", "-", "0", "1", "-", "1", "0">>
NoDate == <<>>
BadDate == <<"a", "b", "c">>

MaxRows == 3
MaxLedgerRows == 2

SeqsUpTo(S, n) == UNION {[1..k -> S] : k \in 0..n}

\* Party_Master: P1 has a code; every other name is known from the sheets only
MasterRows == <<[Name |-> P1, Code |-> R1]>>

PositionRows ==
    {[Date |-> Jan05, Party |-> p, Amount |-> a] : p \in {P1, P2}, a \in {Amt1000, Amt400, Amt250}}

LedgerRows ==
    {[Date |-> d, Party |-> P1, Amount |-> a] : d \in {Jan05, Jan10}, a \in {Amt1000, Amt400}}
      \cup {[Date |-> d, Party |-> P1, Amount |-> Amt400] : d \in {NoDate, BadDate}}
      \cup {[Date |-> Jan05, Party |-> p, Amount |-> Amt1000] : p \in {P1sp, P2}}

\* the date ranges [From, To] of the statement, as date ordinals
Ranges == {<<20240105, 20240110>>, <<20240106, 20240109>>,
           <<20240101, 20240131>>, <<20240201, 20240228>>}

\* the pure-function cells and the tools' session keys while nothing uses them
\* (busy names the group of cells the specification fills itself)
IdleExcept(busy) ==
    /\ stmt = NoView /\ reminders = NoView /\ sort_mode = "unset"
    /\ edit_df = NoView /\ edit_s = "unset" /\ daily_data = NoView /\ saved = NoView
    /\ IF busy = "cell" THEN TRUE ELSE amount_text = <<>> /\ amount_value = NoView
    /\ IF busy = "dates" THEN TRUE
       ELSE date_text = <<>> /\ date_value = NoView /\ date_dayfirst = NoView
    /\ IF busy = "matcher" THEN TRUE
       ELSE scanned_name = <<>> /\ existing_names = {} /\ matched = NoView
                /\ rematched = NoView
    /\ IF busy = "router" THEN TRUE ELSE home = NoView /\ page = "unset"
    /\ selection = NoView

InitSheets(rows, n) ==
    /\ dues \in SeqsUpTo(rows, n)
    /\ pymt \in SeqsUpTo(rows, n - Len(dues))
    /\ goods \in SeqsUpTo(rows, n - Len(dues) - Len(pymt))
    /\ supp_pay \in SeqsUpTo(rows, n - Len(dues) - Len(pymt) - Len(goods))
    /\ master = MasterRows
    /\ IdleExcept("none")

(* Market position and reminders over every snapshot of at most MaxRows rows *)
Init == InitSheets(PositionRows, MaxRows)

Next == screen_home \/ screen_reminders

Spec == Init /\ [][Next]_vars

(* The ledger statement over every snapshot of at most MaxLedgerRows rows *)
InitLedger == InitSheets(LedgerRows, MaxLedgerRows)

\* the outcomes of comparing NaT with a datetime.date that the installed pandas
\* can produce, for a statement whose loops meet such a row
NaTOutcomes(sel_display) ==
    IF MeetsNaT(extract_name_display(sel_display)) THEN {"raise", "false"} ELSE {"false"}

ShowStatement ==
    \E sel_display \in get_all_party_names_display, r \in Ranges :
        \E NaTCompare \in NaTOutcomes(sel_display) :
            screen_ledger(sel_display, r[1], r[2], NaTCompare)

NextLedger == ShowStatement

SpecLedger == InitLedger /\ [][NextLedger]_vars

(* clean_amount on every text of at most MaxAmountLen characters *)
MaxAmountLen == 3

AmountAlphabet == {"0", "5", "-", ",", Rupee, "R", "s", " ", "n", "a"}

InitAmount ==
    /\ dues = <<>> /\ pymt = <<>> /\ goods = <<>> /\ supp_pay = <<>>
    /\ master = MasterRows
    /\ IdleExcept("cell")
    /\ amount_text \in SeqsUpTo(AmountAlphabet, MaxAmountLen)
    /\ amount_value = NoView

CleanAmount ==
    /\ amount_value' = [kind |-> IF FloatIsNaN(CleanedText(amount_text)) THEN "nan" ELSE "amount",
                         v |-> clean_amount(amount_text)]
    /\ UNCHANGED <<sheets, views, sort_mode, amount_text, dates, matcher, session, nav>>

NextAmount == CleanAmount

SpecAmount == InitAmount /\ [][NextAmount]_vars

(* parse_date and the filters' reading on every text of DateTexts *)
DateTexts ==
    LET TwoDigits == {<<"0", "1">>, <<"0", "5">>, <<"1", "2">>, <<"1", "3">>, <<"3", "1">>}
        Year2024 == <<"2", "0", "2", "4">>
    IN {dd \o <<"/">> \o mm \o <<"/">> \o Year2024 : dd \in TwoDigits, mm \in TwoDigits}
         \cup {Year2024 \o <<"-">> \o mm \o <<"-">> \o dd : dd \in TwoDigits, mm \in TwoDigits}
         \cup {NoDate, BadDate}

InitDate ==
    /\ dues = <<>> /\ pymt = <<>> /\ goods = <<>> /\ supp_pay = <<>>
    /\ master = MasterRows
    /\ IdleExcept("dates")
    /\ date_text \in DateTexts
    /\ date_value = NoView /\ date_dayfirst = NoView

\* the ledger reads the cell: r_date = parse_date(str(r['Date']))
ParseDate ==
    /\ date_value' = parse_date(date_text)
    /\ UNCHANGED <<sheets, views, sort_mode, cell, date_text, date_dayfirst, matcher, session, nav>>

\* the Day Book / Edit filter reads the cell
FilterDate ==
    \E Swapped \in SwappedOutcomes(date_text) :
        /\ date_dayfirst' = to_datetime_dayfirst(date_text, Swapped)
        /\ UNCHANGED <<sheets, views, sort_mode, cell, date_text, date_value, matcher, session, nav>>

NextDate == ParseDate \/ FilterDate

SpecDate == InitDate /\ [][NextDate]_vars

(* smart_match_party on every scanned name and every set of known names *)
ScanNames ==
    {<<>>, <<"a", "b", "c">>, <<"a", "b", "d">>, <<"a", "b">>, <<"b">>,
     <<"a", "b", "c", "d", "e">>, <<"a", "b", "c", "x", "y">>}

KnownNames ==
    {<<"a", "b", "c">>, <<"a", "b", "d">>, <<"a", "b">>, <<"x", "y">>,
     <<"a", "b", "c", "x", "y">>}

InitMatch ==
    /\ dues = <<>> /\ pymt = <<>> /\ goods = <<>> /\ supp_pay = <<>>
    /\ master = MasterRows
    /\ IdleExcept("matcher")
    /\ scanned_name \in ScanNames
    /\ existing_names \in SUBSET KnownNames
    /\ matched = NoView /\ rematched = NoView

\* final_name = smart_match_party(raw_name, existing_names)
Match ==
    /\ matched' = [kind |-> "name", v |-> smart_match_party(scanned_name, existing_names)]
    /\ UNCHANGED <<sheets, views, sort_mode, cell, dates, scanned_name, existing_names,
                   rematched, session, nav>>

\* the name it returned is scanned again
Rematch ==
    /\ matched.kind = "name"
    /\ rematched' = [kind |-> "name", v |-> smart_match_party(matched.v, existing_names)]
    /\ UNCHANGED <<sheets, views, sort_mode, cell, dates, scanned_name, existing_names,
                   matched, session, nav>>

NextMatch == Match \/ Rematch

SpecMatch == InitMatch /\ [][NextMatch]_vars

(* The reminder list and its sort buttons over every snapshot of at most  *)
(* MaxSortRows rows of CustomerDues and PaymentsReceived                   *)
MaxSortRows == 2

InitSort ==
    /\ \E SortRows \in {{[Date |-> Jan05, Party |-> p, Amount |-> a] :
                             p \in {P1, P2}, a \in {Amt1000, Amt400}}} :
          /\ dues \in SeqsUpTo(SortRows, MaxSortRows)
          /\ pymt \in SeqsUpTo(SortRows, MaxSortRows - Len(dues))
    /\ goods = <<>> /\ supp_pay = <<>>
    /\ master = MasterRows
    /\ IdleExcept("none")

NextSort == screen_reminders \/ \E mode \in SortModes : SortButton(mode)

SpecSort == InitSort /\ [][NextSort]_vars

(* The Edit Txn tool over every snapshot of at most MaxEditRows rows of    *)
(* CustomerDues and GoodsReceived                                          *)
MaxEditRows == 2

InitEdit ==
    /\ \E EditRows \in {{[Date |-> d, Party |-> p, Amount |-> Amt400] :
                             d \in {Jan05, Jan10, NoDate}, p \in {P1, P2}}} :
          /\ dues \in SeqsUpTo(EditRows, MaxEditRows)
          /\ goods \in SeqsUpTo(EditRows, MaxEditRows - Len(dues))
    /\ pymt = <<>> /\ supp_pay = <<>>
    /\ master = MasterRows
    /\ IdleExcept("none")

\* the options of the select box "Filter"
FilterOptions ==
    {AllParties} \cup {extract_name_display(p) : p \in get_all_party_names_display}

PressLoadData ==
    \E sheet \in SheetIds, f_party \in FilterOptions,
       r \in {<<20240101, 20240131>>, <<20240106, 20240131>>} :
        LoadData(sheet, f_party, r[1], r[2])

\* st.data_editor returns the rows loaded, or those rows with the first one
\* deleted by the user
PressSaveChanges ==
    /\ edit_df.kind = "df"
    /\ \E f_party \in FilterOptions,
          edited \in {edit_df.rows}
                        \cup {Tail(edit_df.rows) : x \in {1} \cap DOMAIN edit_df.rows} :
          SaveChanges(f_party, edited)

NextEdit == PressLoadData \/ PressSaveChanges

SpecEdit == InitEdit /\ [][NextEdit]_vars

(* Daily Scan: journal pages of at most MaxScanRows rows in all            *)
MaxScanRows == 2

ScanRows == {[Party |-> p, Amount |-> Amt400] : p \in {P1, P2, <<"Q", "3">>}}

\* the rows the sheets still have room for
ScanRoom == MaxScanRows - (Len(dues) + Len(pymt) + Len(goods) + Len(supp_pay))

InitScan ==
    /\ dues = <<>> /\ pymt = <<>> /\ goods = <<>> /\ supp_pay = <<>>
    /\ master = MasterRows
    /\ IdleExcept("none")

\* "Extract" with whatever run_daily_scan_extraction returns: at least one
\* row, at most as many as there is room for
PressExtract ==
    \E a \in SeqsUpTo(ScanRows, ScanRoom) :
      \E b \in SeqsUpTo(ScanRows, ScanRoom - Len(a)) :
        \E c \in SeqsUpTo(ScanRows, ScanRoom - Len(a) - Len(b)) :
          \E d \in SeqsUpTo(ScanRows, ScanRoom - Len(a) - Len(b) - Len(c)) :
            /\ Len(a) + Len(b) + Len(c) + Len(d) >= 1
            /\ Extract([CustomerDues |-> a, PaymentsReceived |-> b,
                        PaymentsToSuppliers |-> c, GoodsReceived |-> d])

NextScan == PressExtract \/ SaveAll(Jan05)

SpecScan == InitScan /\ [][NextScan]_vars

(* The Day Book over every snapshot of at most MaxDayRows rows of          *)
(* CustomerDues and GoodsReceived                                          *)
MaxDayRows == 2

ViewDates == {20240105, 20240110}

InitDayBook ==
    /\ \E DayRows \in {{[Date |-> d, Party |-> P1, Amount |-> a] :
                            d \in {Jan05, Jan10, NoDate}, a \in {Amt400, Amt250}}} :
          /\ dues \in SeqsUpTo(DayRows, MaxDayRows)
          /\ goods \in SeqsUpTo(DayRows, MaxDayRows - Len(dues))
    /\ pymt = <<>> /\ supp_pay = <<>>
    /\ master = MasterRows
    /\ IdleExcept("none")

\* what st.data_editor returns for the rows d of the day: d itself, d with
\* its first row deleted, or d with the date of its first row retyped as a
\* text that is no date
\* (Api: whether the worksheet is reached, and whether ws.update goes
\* through after ws.clear)
PressSaveDay ==
    \E sheet_name \in SheetIds, view_date \in ViewDates,
       Api \in {"ok", "unavailable", "update fails"} :
        \E d \in {filter_by_date(fetch_sheet_data(sheet_name), view_date, "monthfirst")} :
            \E edited \in {d} \cup {Tail(d) : x \in {1} \cap DOMAIN d}
                             \cup {[d EXCEPT ![1].Date = BadDate] : x \in {1} \cap DOMAIN d} :
                SaveDay(sheet_name, view_date, edited, Api)

SpecDayBook == InitDayBook /\ [][PressSaveDay]_vars

(* The party select boxes over every Party_Master and CustomerDues of at   *)
(* most MaxDisplayRows rows in all, the names with blanks and parentheses  *)
MaxDisplayRows == 2

DisplayNames ==
    {P1, P1sp, <<"P", "(", "1", ")">>, <<"P", " ", "(", "1", ")">>, <<"(", "P", ")">>}

InitDisplay ==
    /\ master \in SeqsUpTo({[Name |-> n, Code |-> c] : n \in DisplayNames, c \in {<<>>, R1}},
                            MaxDisplayRows)
    /\ dues \in SeqsUpTo({[Date |-> Jan05, Party |-> n, Amount |-> Amt400] : n \in DisplayNames},
                          MaxDisplayRows - Len(master))
    /\ pymt = <<>> /\ goods = <<>> /\ supp_pay = <<>>
    /\ IdleExcept("none")

\* st.selectbox("Party", get_all_party_names_display()) and
\* extract_name_display on the option picked, the option being the one built
\* for the name n
SelectParty ==
    \E n \in MasterNames \cup SheetNames(dues) \cup SheetNames(pymt)
                  \cup SheetNames(goods) \cup SheetNames(supp_pay) :
        /\ selection' = [kind |-> "party", name |-> n, code |-> CodeOf(n),
                         display |-> DisplayOf(n),
                         party |-> extract_name_display(DisplayOf(n))]
        /\ UNCHANGED <<sheets, views, sort_mode, cell, dates, matcher, session, page>>

SpecDisplay == InitDisplay /\ [][SelectParty]_vars

(* Navigation over every snapshot of at most MaxNavRows rows of            *)
(* CustomerDues and PaymentsReceived, for a user who goes on pressing      *)
(* every button that keeps being offered                                   *)
MaxNavRows == 1

\* the first run of the script: no 'page' key, so the page is home and the
\* home screen is rendered
InitNav ==
    /\ dues \in SeqsUpTo(PositionRows, MaxNavRows)
    /\ pymt \in SeqsUpTo(PositionRows, MaxNavRows - Len(dues))
    /\ goods = <<>> /\ supp_pay = <<>>
    /\ master = MasterRows
    /\ IdleExcept("router")
    /\ page = "home"
    /\ home = PositionView

NextNav ==
    \/ \E target \in RoutedPages : go_to(target)
    \/ \E mode \in SortModes : SortButton(mode)

\* The user leaves every screen by its Home button in the end (weak
\* fairness: the button stays offered), and so sees the home screen again and
\* again; there the user presses each of the six buttons again and again
\* (strong fairness of each button, written as the recurrence it amounts to
\* once home recurs).
SpecNav ==
    /\ InitNav /\ [][NextNav]_vars
    /\ WF_vars(go_to("home"))
    /\ \A target \in HomeButtons : []<><<go_to(target)>>_vars

----------------------------------------------------------------------------
(* Properties of the Market Position totals (checked under Spec).          *)

TxnSheets == {dues, pymt, goods, supp_pay}

\* sales minus receipts (purchases minus payments) of one name, from the rows
RowTotal(sheet, p) ==
    LET idx == {i \in DOMAIN sheet : sheet[i].Party = p}
        f[S \in SUBSET idx] ==
            IF S = {} THEN 0
            ELSE LET i == CHOOSE x \in S : TRUE
                 IN clean_amount(sheet[i].Amount) + f[S \ {i}]
    IN f[idx]

SignedBalance(plus, minus, p) == RowTotal(plus, p) - RowTotal(minus, p)

\* the sum of the positive balances, each distinct name counted once
Outstanding(plus, minus) ==
    LET names == SheetNames(plus) \cup SheetNames(minus)
        f[S \in SUBSET names] ==
            IF S = {} THEN 0
            ELSE LET p == CHOOSE x \in S : TRUE
                     b == SignedBalance(plus, minus, p)
                 IN (IF b > 0 THEN b ELSE 0) + f[S \ {p}]
    IN f[names]

\* C1: for every snapshot of CustomerDues and PaymentsReceived, one of them
\* empty or not, total_receivable is the sum over the distinct customers of the
\* positive sales-minus-receipts balances, and it is never negative.
C1_ReceivableIsOutstanding ==
    home.kind = "position" =>
        /\ home.total_receivable = Outstanding(dues, pymt)
        /\ home.total_receivable >= 0

\* C2: for every snapshot of GoodsReceived and PaymentsToSuppliers, one of them
\* empty or not, total_payable is the sum over the distinct suppliers of the
\* positive purchases-minus-payments balances; no customer row enters it.
C2_PayableIsOutstanding ==
    home.kind = "position" => home.total_payable = Outstanding(goods, supp_pay)

\* the sum of the positive balances of a reminder list
PositiveBalances(data) ==
    LET f[S \in SUBSET DOMAIN data] ==
            IF S = {} THEN 0
            ELSE LET i == CHOOSE x \in S : TRUE
                 IN (IF data[i].Balance > 0 THEN data[i].Balance ELSE 0) + f[S \ {i}]
    IN f[DOMAIN data]

\* C8: for every snapshot of CustomerDues and PaymentsReceived, the
\* total_receivable of screen_home is the sum of the positive balances that
\* screen_reminders computes over all parties for the same snapshot.
C8_HomeAgreesWithReminders ==
    home.kind = "position" => home.total_receivable = PositiveBalances(ReminderData)

\* the threshold of "if amt != 0": a balance is listed when |balance| > 0
MinThreshold == 0

Abs(x) == IF x < 0 THEN 0 - x ELSE x

Customers == SheetNames(dues) \cup SheetNames(pymt)

\* C9: screen_reminders computes for each customer the signed balance (sales
\* minus receipts, not floored at zero) and lists the customer, with that
\* balance, exactly when its absolute value is greater than the threshold; a
\* customer at or below the threshold is not listed, and nobody else is.
C9_ListedIffAboveThreshold ==
    reminders.kind # "none" =>
        /\ \A p \in Customers :
              (\E i \in DOMAIN reminders.data :
                  /\ reminders.data[i].Party = DisplayOf(p)
                  /\ reminders.data[i].Balance = SignedBalance(dues, pymt, p))
                <=> Abs(SignedBalance(dues, pymt, p)) > MinThreshold
        /\ \A i \in DOMAIN reminders.data :
              /\ \E p \in Customers : reminders.data[i].Party = DisplayOf(p)
              /\ \A j \in DOMAIN reminders.data :
                    reminders.data[j].Party = reminders.data[i].Party => j = i

\* a settled customer left out beside a customer in credit, who is listed
C9_Witness ==
    /\ reminders.kind = "list"
    /\ \E p \in Customers : SignedBalance(dues, pymt, p) = 0
    /\ \E i \in DOMAIN reminders.data : reminders.data[i].Balance < 0

----------------------------------------------------------------------------
(* Properties of the ledger statement (checked under SpecLedger).          *)

Shown == stmt.kind = "statement"

\* the entries of whatever "Show Statement" rendered
StmtEntries == IF Shown THEN stmt.df ELSE <<>>

SheetOf(desc) ==
    CASE desc = "Sale" -> dues [] desc = "Rx" -> pymt
      [] desc = "Purchase" -> goods [] desc = "Paid Supplier" -> supp_pay

Kinds == {"Sale", "Rx", "Purchase", "Paid Supplier"}

\* the rows the statement is to show: the party cell equals the selected
\* party after trimming both, the date parses and lies in [s, e]
Belongs(r, party, s, e) ==
    /\ Strip(r.Party) = Strip(party)
    /\ parse_date(r.Date).k = "date"
    /\ s <= parse_date(r.Date).v /\ parse_date(r.Date).v <= e

\* whether "Show Statement" ran to its end (a statement or "No Transactions Found")
Rendered == stmt.kind \in {"statement", "no transactions"}

\* C3: the statement holds exactly one entry for each row of the four sheets
\* whose party equals the selected party after trimming both sides and whose
\* date parses and lies in [from, to], ends included, and no other entry (a row
\* whose date does not parse is left out).  Stated of the statements that were
\* rendered to their end.
C3_StatementIsTheMatchingRows ==
    Rendered =>
        \A desc \in Kinds :
            LET sheet == SheetOf(desc)
                rows == {i \in DOMAIN sheet : Belongs(sheet[i], stmt.party, stmt.s, stmt.e)}
                ents == {i \in DOMAIN StmtEntries : StmtEntries[i].Description = desc}
            IN /\ Cardinality(ents) = Cardinality(rows)
               /\ \A i \in rows :
                     Cardinality({j \in ents :
                         /\ StmtEntries[j].Date = parse_date(sheet[i].Date).v
                         /\ StmtEntries[j].Debit + StmtEntries[j].Credit
                               = clean_amount(sheet[i].Amount)})
                       = Cardinality({j \in rows :
                             /\ parse_date(sheet[j].Date) = parse_date(sheet[i].Date)
                             /\ clean_amount(sheet[j].Amount) = clean_amount(sheet[i].Amount)})

\* the sum of one column over the entries, taken over the set of their positions
ColumnTotal(df, field) ==
    LET f[S \in SUBSET DOMAIN df] ==
            IF S = {} THEN 0
            ELSE LET i == CHOOSE x \in S : TRUE IN df[i][field] + f[S \ {i}]
    IN f[DOMAIN df]

\* C4: whenever a statement is produced, its net balance is the sum of the
\* Debit values minus the sum of the Credit values over exactly the entries of
\* that statement, and the last running balance of the PDF is that balance.
C4_BalanceIsDebitMinusCredit ==
    Shown =>
        /\ stmt.bal = ColumnTotal(stmt.df, "Debit") - ColumnTotal(stmt.df, "Credit")
        /\ Len(stmt.pdf) = Len(stmt.df)
        /\ stmt.pdf[Len(stmt.pdf)] = stmt.bal

C4_Witness ==
    /\ Shown /\ Len(stmt.df) = 2
    /\ stmt.df[1].Debit = 1000 /\ stmt.df[2].Credit = 400
    /\ stmt.bal = 600

\* a row of the sheet, of the selected party, that an entry was made from
MadeFrom(ent, sheet, amount) ==
    \E i \in DOMAIN sheet :
        /\ sheet[i].Party = stmt.party
        /\ parse_date(sheet[i].Date) = [k |-> "date", v |-> ent.Date]
        /\ clean_amount(sheet[i].Amount) = amount

\* C5: every entry is tagged by its kind: a CustomerDues row gives debit =
\* amount and credit = 0, a PaymentsReceived row debit = 0 and credit = amount,
\* a GoodsReceived row debit = 0 and credit = amount, a PaymentsToSuppliers row
\* debit = amount and credit = 0; no entry has both debit and credit non-zero.
C5_EntriesTaggedByKind ==
    \A i \in DOMAIN StmtEntries :
        LET ent == StmtEntries[i]
        IN /\ ent.Description \in Kinds
           /\ ent.Description = "Sale" => ent.Credit = 0 /\ MadeFrom(ent, dues, ent.Debit)
           /\ ent.Description = "Rx" => ent.Debit = 0 /\ MadeFrom(ent, pymt, ent.Credit)
           /\ ent.Description = "Purchase" => ent.Debit = 0 /\ MadeFrom(ent, goods, ent.Credit)
           /\ ent.Description = "Paid Supplier" =>
                 ent.Credit = 0 /\ MadeFrom(ent, supp_pay, ent.Debit)
           /\ ~(ent.Debit # 0 /\ ent.Credit # 0)

C5_Witness ==
    /\ Shown /\ Len(stmt.df) = 2
    /\ \E i, j \in DOMAIN stmt.df :
          /\ stmt.df[i].Description = "Purchase" /\ stmt.df[i].Credit = 1000
          /\ stmt.df[j].Description = "Paid Supplier" /\ stmt.df[j].Debit = 400

\* C6: the entries of every statement are in non-decreasing order of date,
\* whatever the order of the rows in the sheets and whatever sheet they are from.
C6_EntriesSortedByDate ==
    \A i, j \in DOMAIN StmtEntries : i < j => StmtEntries[i].Date <= StmtEntries[j].Date

\* a receipt dated before a sale: the four loops list the sale first
C6_Witness ==
    /\ Shown /\ Len(stmt.df) = 2
    /\ stmt.df[1].Description = "Rx" /\ stmt.df[2].Description = "Sale"
    /\ stmt.df[1].Date < stmt.df[2].Date

\* C7: the balance is labelled 'Receivable' exactly when it is positive and
\* 'Payable' exactly when it is negative.
C7_StatusFollowsSign ==
    Shown =>
        /\ stmt.status = "Receivable" <=> stmt.bal > 0
        /\ stmt.status = "Payable" <=> stmt.bal < 0

----------------------------------------------------------------------------
(* Properties of clean_amount (checked under SpecAmount).                  *)

\* C10: for every raw amount text, also one that denotes a negative number,
\* clean_amount yields a value >= 0 (the value every Debit, Credit and summed
\* amount is taken from).
C10_AmountsNonNegative ==
    amount_value.kind = "amount" => amount_value.v >= 0

----------------------------------------------------------------------------
(* Properties of clean_amount (checked under SpecAmount), continued.       *)

\* the text with every "," and rupee sign, every "Rs" and the surrounding
\* whitespace taken away
TokensRemoved(text) ==
    LET plain == SelectSeq(text, LAMBDA c : c \notin {",", Rupee})
    IN Strip(Remove(plain, <<"R", "s">>))

\* numeric text: decimal digits behind an optional sign
IsNumericText(t) ==
    \E sign \in {<<>>, <<"-">>, <<"+">>} :
        /\ StartsWith(t, sign)
        /\ AllDigits(SubSeq(t, Len(sign) + 1, Len(t)))

NumericValue(t) ==
    IF Head(t) = "-" THEN 0 - ToNat(Tail(t))
    ELSE IF Head(t) = "+" THEN ToNat(Tail(t))
    ELSE ToNat(t)

\* C11: clean_amount of a numeric text (commas, rupee signs, "Rs" and
\* surrounding whitespace allowed) is the number the text denotes once those
\* tokens are removed, and clean_amount of every other text is 0
C11_CleanAmountIsNumericValue ==
    amount_value.kind # "none" =>
        LET t == TokensRemoved(amount_text)
        IN /\ amount_value.kind = "amount"
           /\ amount_value.v = IF IsNumericText(t) THEN NumericValue(t) ELSE 0

----------------------------------------------------------------------------
(* Properties of the date readings (checked under SpecDate).               *)

\* the calendar date a text DD/MM/YYYY denotes, day first
IsDayFirstDate(text) ==
    /\ IsSlashShape(text)
    /\ ValidYMD(ToNat(SubSeq(text, 7, 10)), ToNat(SubSeq(text, 4, 5)), ToNat(SubSeq(text, 1, 2)))

DayFirstDate(text) ==
    ADate(ToNat(SubSeq(text, 7, 10)), ToNat(SubSeq(text, 4, 5)), ToNat(SubSeq(text, 1, 2)))

\* a text that denotes a calendar date in one of the two shapes
DenotesDate(text) ==
    \/ IsIsoShape(text) /\ ValidYMD(ToNat(SubSeq(text, 1, 4)), ToNat(SubSeq(text, 6, 7)),
                                     ToNat(SubSeq(text, 9, 10)))
    \/ IsSlashShape(text) /\ \E y \in {ToNat(SubSeq(text, 7, 10))} :
           \/ ValidYMD(y, ToNat(SubSeq(text, 4, 5)), ToNat(SubSeq(text, 1, 2)))
           \/ ValidYMD(y, ToNat(SubSeq(text, 1, 2)), ToNat(SubSeq(text, 4, 5)))

\* C12: parse_date reads every valid DD/MM/YYYY text day first (also when the
\* day is 12 or less), returns None for a text that is no date, and the ledger
\* and the Day Book / Edit filters read the same text as the same date
C12_DatesReadDayFirst ==
    /\ (date_value # NoView /\ IsDayFirstDate(date_text)) => date_value = DayFirstDate(date_text)
    /\ (date_value # NoView /\ ~DenotesDate(date_text)) => date_value = PyNone
    /\ (date_value # NoView /\ date_dayfirst # NoView /\ DenotesDate(date_text))
           => date_value = date_dayfirst

----------------------------------------------------------------------------
(* No fatal error class (checked under Spec).                              *)

\* C13: screen_home, screen_ledger and screen_reminders complete for every
\* snapshot of the sheets -- empty sheets, sheets filled on one side only,
\* no party with a balance to list -- without an uncaught exception
C13_NoFatalError ==
    /\ home.kind # "error"
    /\ stmt.kind # "error"
    /\ reminders.kind # "error"

----------------------------------------------------------------------------
(* The empty statement (checked under SpecLedger).                         *)

\* whether "Show Statement" was pressed (to its end or not)
Pressed == stmt.kind # "none"

\* no row of any sheet matches the selected party within the range
NothingMatches ==
    \A desc \in Kinds : \A i \in DOMAIN SheetOf(desc) :
        ~Belongs(SheetOf(desc)[i], stmt.party, stmt.s, stmt.e)

\* the snapshot of the scenario: a due of 1000 on 2024-01-05 and a receipt of
\* 400 on 2024-01-10, both of P1
ScenarioSnapshot ==
    /\ dues = <<[Date |-> Jan05, Party |-> P1, Amount |-> Amt1000]>>
    /\ pymt = <<[Date |-> Jan10, Party |-> P1, Amount |-> Amt400]>>
    /\ goods = <<>> /\ supp_pay = <<>>

\* C14: when no row matches the selected party within the range the statement
\* is the normal empty result ("No Transactions Found": no entries, balance
\* zero), not an error; in the scenario the range of February yields that
\* result and the range 2024-01-01 .. 2024-01-31 yields the two entries with
\* balance 600
C14_EmptyRangeIsNormal ==
    /\ (Pressed /\ NothingMatches) => stmt.kind = "no transactions"
    /\ (Pressed /\ ScenarioSnapshot /\ stmt.party = P1 /\ stmt.s = 20240201 /\ stmt.e = 20240228)
           => stmt.kind = "no transactions"
    /\ (Pressed /\ ScenarioSnapshot /\ stmt.party = P1 /\ stmt.s = 20240101 /\ stmt.e = 20240131)
           => /\ stmt.kind = "statement"
              /\ Len(stmt.df) = 2
              /\ stmt.bal = 600

----------------------------------------------------------------------------
(* Properties of smart_match_party (checked under SpecMatch).              *)

\* C15: resolving a name that smart_match_party returned gives the same name
C15_MatchIdempotent ==
    rematched.kind = "name" => rematched.v = matched.v

C15_Witness ==
    /\ rematched.kind = "name"
    /\ matched.v # scanned_name
    /\ Cardinality(existing_names) >= 2

\* the known names nothing beats in similarity to the scanned name
MostSimilar ==
    {x \in existing_names : \A y \in existing_names :
        Ratio(y, scanned_name)[1] * Ratio(x, scanned_name)[2]
            <= Ratio(x, scanned_name)[1] * Ratio(y, scanned_name)[2]}

\* C16 as stated: the result is a known name of highest similarity when that
\* similarity exceeds the cutoff, and the scanned name unchanged when none
\* does; it is a known name or the input, and the input when no name is known
C16_MatchExceedsCutoff ==
    matched.kind = "name" =>
        /\ matched.v \in existing_names \cup {scanned_name}
        /\ existing_names = {} => matched.v = scanned_name
        /\ IF \E x \in MostSimilar : ExceedsCutoff(x, scanned_name)
           THEN matched.v \in MostSimilar
           ELSE matched.v = scanned_name

\* C16 amended: the result is a known name of highest similarity when that
\* similarity is at least the cutoff 0.6, and the scanned name unchanged when
\* every known name is below it; it is a known name or the input, and the
\* input when no name is known
C16_MatchMeetsCutoff ==
    matched.kind = "name" =>
        /\ matched.v \in existing_names \cup {scanned_name}
        /\ existing_names = {} => matched.v = scanned_name
        /\ IF \E x \in MostSimilar : Ratio(x, scanned_name)[1] * 10 >= 6 * Ratio(x, scanned_name)[2]
           THEN matched.v \in MostSimilar
           ELSE matched.v = scanned_name

\* a scanned name resolved to a known name exactly at the cutoff
C16_Witness ==
    /\ matched.kind = "name"
    /\ matched.v # scanned_name
    /\ matched.v \in existing_names
    /\ Ratio(matched.v, scanned_name)[1] * 10 = 6 * Ratio(matched.v, scanned_name)[2]

----------------------------------------------------------------------------
(* Properties of the sort modes of the reminder list (checked under        *)
(* SpecSort).                                                              *)

\* the mode in force: the one stored by the last button pressed, High-Low
\* while none was pressed
ModeInForce == IF sort_mode = "unset" THEN "High-Low" ELSE sort_mode

\* whether row x may stand before row y under a mode
InOrder(x, y, mode) ==
    CASE mode = "High-Low" -> x.Balance >= y.Balance
      [] mode = "Low-High" -> x.Balance <= y.Balance
      [] mode = "A-Z" -> ~StrLess(y.Party, x.Party)
      [] mode = "Z-A" -> ~StrLess(x.Party, y.Party)

\* C17: the list on display is ordered by the mode in force -- High-Low by
\* non-increasing balance, Low-High by non-decreasing balance, A-Z by
\* non-decreasing party name, Z-A by non-increasing party name; High-Low is in
\* force until a button is pressed and a pressed mode stays in force over
\* reruns; whatever the mode, the list holds the same parties with the same
\* balances
C17_ListOrderedByMode ==
    reminders.kind = "list" =>
        /\ ModeInForce \in SortModes
        /\ \A i, j \in DOMAIN reminders.data :
               i < j => InOrder(reminders.data[i], reminders.data[j], ModeInForce)
        /\ Len(reminders.data) = Len(ReminderData)
        /\ {reminders.data[i] : i \in DOMAIN reminders.data}
               = {ReminderData[i] : i \in DOMAIN ReminderData}

\* two parties listed Z-A, in an order that High-Low would not give
C17_Witness ==
    /\ reminders.kind = "list"
    /\ sort_mode = "Z-A"
    /\ Len(reminders.data) = 2
    /\ reminders.data[1].Balance < reminders.data[2].Balance
    /\ StrLess(reminders.data[2].Party, reminders.data[1].Party)

----------------------------------------------------------------------------
(* The frame of the Edit Txn tool (checked under SpecEdit).                *)

\* a row of the named sheet that "Load Data" put into the editor
LoadedIntoEditor(sheet_name, r) ==
    /\ edit_df.kind = "df"
    /\ edit_s = sheet_name
    /\ \E i \in DOMAIN edit_df.rows : edit_df.rows[i] = r

\* C18: no step of the tool -- Load Data, a change of the Filter, Save
\* Changes -- removes or alters a row that was not loaded into the editor:
\* every such row of every sheet is in that sheet after the step
C18_UnloadedRowsKept ==
    [][\A sheet_name \in SheetIds :
          \A i \in DOMAIN fetch_sheet_data(sheet_name) :
              ~LoadedIntoEditor(sheet_name, fetch_sheet_data(sheet_name)[i])
                  => \E j \in DOMAIN fetch_sheet_data(sheet_name)' :
                         fetch_sheet_data(sheet_name)'[j] = fetch_sheet_data(sheet_name)[i]]_vars

----------------------------------------------------------------------------
(* New parties of a Daily Scan (checked under SpecScan).                   *)

\* the parties named in the rows the last "Save All" appended
SavedParties ==
    UNION {{Strip(saved.tables[t][i].Party) : i \in DOMAIN saved.tables[t]} : t \in 1..4}
        \ {<<>>}

\* C19: after "Save All" every party named in an appended row has a
\* Party_Master row with a code, and different parties have different codes,
\* also when they were new and came from different tables of the form
C19_NewPartiesGetOwnCodes ==
    saved.kind = "scan" =>
        /\ \A p \in SavedParties : CodeOf(p) # <<>>
        /\ \A p, q \in SavedParties : p # q => CodeOf(p) # CodeOf(q)

----------------------------------------------------------------------------
(* The frame of a Day Book save (checked under SpecDayBook).               *)

\* the date the Day Book reads a row as differs from D, or the row has none
NotDated(r, D) == to_datetime_dayfirst(r.Date, "monthfirst") # [k |-> "date", v |-> D]

\* C20: a save of the day D on a sheet keeps every row of that sheet whose
\* date differs from D or does not parse, changes no other sheet and not
\* Party_Master, and when the save fails leaves the sheet as it was
C20_DaySaveKeepsOtherRows ==
    [][\A target \in SheetIds, D \in ViewDates :
          (saved'.kind \in {"updated", "error"} /\ saved'.sheet = target /\ saved'.view_date = D)
              => /\ master' = master
                 /\ \A sheet_name \in SheetIds \ {target} :
                        fetch_sheet_data(sheet_name)' = fetch_sheet_data(sheet_name)
                 /\ \A i \in DOMAIN fetch_sheet_data(target) :
                        NotDated(fetch_sheet_data(target)[i], D)
                            => \E j \in DOMAIN fetch_sheet_data(target)' :
                                   fetch_sheet_data(target)'[j] = fetch_sheet_data(target)[i]
                 /\ saved'.kind = "error"
                        => fetch_sheet_data(target)' = fetch_sheet_data(target)]_vars

----------------------------------------------------------------------------
(* Properties of the display strings (checked under SpecDisplay).          *)

\* C21: the display string round-trips to the stored name: the name read
\* from the option that get_all_party_names_display built for the name n
\* with its code ("n (c)", or n when it has no code) is n itself, also for
\* names that contain parentheses, so that the party selected on a screen
\* is a name stored in the sheets.
C21_DisplayRoundTrips ==
    selection.kind = "party" => selection.party = selection.name

----------------------------------------------------------------------------
(* Properties of the navigation (checked under SpecNav).                   *)

\* C22: the session starts on the home page; the page is always one of the
\* eight pages the router handles; every one of these pages is reached from
\* home by pressing buttons; and on every page other than home the Home
\* button is there and leads to the home page.
C22_PageNavigation ==
    /\ page = "home"
    /\ [](page \in RoutedPages)
    /\ \A p \in RoutedPages : <>(page = p)
    /\ [](page # "home" => ENABLED (go_to("home") /\ page' = "home"))

====
